---- MODULE Spec2Model ----
(***************************************************************************)
(* Model of src/main.py: the house-versus-alternative investment           *)
(* calculator (calculate_emi, simulate_investment, generate_yearly_report, *)
(* calculate_advanced_metrics and the control flow of main).               *)
(*                                                                         *)
(* Arithmetic.  The program computes over floating-point reals.  The model *)
(* computes over exact values: a value is a polynomial with rational       *)
(* coefficients over five positive real quantities that the program only   *)
(* ever uses as repeated multipliers (Atoms below).  A linear factor that  *)
(* is applied a bounded number of times (1 - vacancy_rate/100, the rates   *)
(* /100/12, 1 - alt_investment_tax/100) is an exact rational coefficient;  *)
(* a factor that is applied once per period or that is an irrational root  *)
(* is an atom whose exponent counts the multiplications.  Two equal        *)
(* polynomials denote equal reals, whatever the atoms' values.             *)
(***************************************************************************)
EXTENDS Integers, Sequences, FiniteSets, TLC

\* ------------------------------------------------------------------ bounds

\* Longest loan term (years) the inputs are drawn from.
MaxLoanTerm == 2

\* Months per year: the 12 of `loan_term * 12`, `m % 12` and `y * 12 - 1`.
MonthsPerYear == 12

\* ------------------------------------------------------------- rationals

RECURSIVE GCD(_, _)
GCD(a, b) == IF b = 0 THEN a ELSE GCD(b, a % b)

Abs(x) == IF x < 0 THEN -x ELSE x

\* The rational n/d (d # 0) in lowest terms with a positive denominator.
Rat(n, d) ==
  LET g == GCD(Abs(n), Abs(d))
      s == IF d < 0 THEN -1 ELSE 1
  IN  <<(s * n) \div g, (s * d) \div g>>

RInt(k) == <<k, 1>>
RAdd(x, y) == Rat(x[1] * y[2] + y[1] * x[2], x[2] * y[2])
RNeg(x) == <<-x[1], x[2]>>
RMul(x, y) == Rat(x[1] * y[1], x[2] * y[2])
RDiv(x, y) == Rat(x[1] * y[2], x[2] * y[1])
RIsZero(x) == x[1] = 0

\* ----------------------------------------------------------- polynomials

\* The quantities kept symbolic, each a positive real for the inputs drawn:
\*   rent_factor      = 1 + rental_increase / 100
\*   structure_factor = (1 - house_depreciation_rate / 100) ** (1 / 12)
\*   land_factor      = (1 + land_growth_rate / 100) ** (1 / 12)
\*   alt_factor       = 1 + monthly_alt_rate
\*   amort            = (1 + monthly_rate)**n / ((1 + monthly_rate)**n - 1)
\*   discount         = 1 / (1 + monthly_discount_rate)
Atoms == {"rent_factor", "structure_factor", "land_factor", "alt_factor",
          "amort", "discount"}

One == [a \in Atoms |-> 0]

\* The monomial a^k.
Pow(a, k) == [One EXCEPT ![a] = k]

\* A polynomial is a set of terms with distinct monomials and non-zero
\* coefficients; the empty set is 0.
Zero == {}

Term(mono, coef) == [mono |-> mono, coef |-> coef]

Const(r) == IF RIsZero(r) THEN Zero ELSE {Term(One, r)}

Monos(p) == {t.mono : t \in p}

Coef(p, mono) ==
  IF \E t \in p : t.mono = mono
  THEN (CHOOSE t \in p : t.mono = mono).coef
  ELSE RInt(0)

PAdd(p, q) ==
  {Term(mono, RAdd(Coef(p, mono), Coef(q, mono))) :
     mono \in {x \in Monos(p) \cup Monos(q) :
                 ~RIsZero(RAdd(Coef(p, x), Coef(q, x)))}}

PScale(p, r) ==
  IF RIsZero(r) THEN Zero ELSE {Term(t.mono, RMul(t.coef, r)) : t \in p}

PSub(p, q) == PAdd(p, PScale(q, RInt(-1)))

\* p multiplied k times by the atom a.
PMulAtom(p, a, k) ==
  {Term([t.mono EXCEPT ![a] = @ + k], t.coef) : t \in p}

PIsZero(p) == p = Zero

\* ---------------------------------------------------------------- inputs

\* The parameter records main builds from the sidebar (lines 247-265), plus
\* the discount rate it passes to calculate_advanced_metrics.  Every rate is
\* a percentage.  A zero rent makes every net cash flow negative; a zero
\* loan interest is the zero-rate loan; land_area * land_price_per_sqft
\* exceeds house_price for some records and not for others; a tax of 100
\* makes the final alternative value 0.  The principal is positive and no
\* rate is negative, so every atom is a positive real.
ParamSet ==
  [house_price             : {1200, 2400},
   loan_interest           : {0, 4},
   loan_term               : 1..MaxLoanTerm,
   monthly_rent            : {0, 100},
   rental_increase         : {3},
   house_depreciation_rate : {0, 1},
   land_area               : {0, 20},
   land_price_per_sqft     : {100},
   land_growth_rate        : {0, 3},
   alternative_return      : {5},
   inflation_rate          : {2},
   property_tax_rate       : {1},
   insurance_rate          : {1},
   management_fee_rate     : {10},
   maintenance_rate        : {2},
   vacancy_rate            : {0, 50},
   alt_investment_tax      : {0, 30, 100},
   discount_rate           : {5}]

\* ------------------------------------------------------- calculate_emi

\* The denominator (1 + monthly_rate)**n - 1 of line 13 is zero exactly when
\* the power is 1: for a base 1 + monthly_rate > 0 that is monthly_rate = 0
\* or n = 0.
EmiDenominatorIsZero(annual_interest_rate, years) ==
  LET monthly_rate == Rat(annual_interest_rate, 100 * 12)
      n == years * MonthsPerYear
  IN  RIsZero(monthly_rate) \/ n = 0

\* calculate_emi (lines 7-14): one formula, no branch on the rate.  Python's
\* float division by zero raises ZeroDivisionError.
calculate_emi(P, annual_interest_rate, years) ==
  LET monthly_rate == Rat(annual_interest_rate, 100 * 12)
  IN  IF EmiDenominatorIsZero(annual_interest_rate, years)
      THEN [raised |-> "ZeroDivisionError", value |-> Zero]
      ELSE [raised |-> "none",
            value  |-> PMulAtom(Const(RMul(RInt(P), monthly_rate)), "amort", 1)]

\* ------------------------------------------------- simulate_investment

\* n = int(loan_term * 12), line 43.
NumPeriods(p) == p.loan_term * MonthsPerYear

\* Lines 47-48.
initial_land_value(p) == p.land_area * p.land_price_per_sqft

structure_value_initial(p) == p.house_price - initial_land_value(p)

\* Lines 74-76: flat monthly charges on the original house price.
property_tax_monthly(p) ==
  Const(RDiv(RMul(Rat(p.property_tax_rate, 100), RInt(p.house_price)), RInt(12)))

insurance_monthly(p) ==
  Const(RDiv(RMul(Rat(p.insurance_rate, 100), RInt(p.house_price)), RInt(12)))

maintenance_monthly(p) ==
  Const(RDiv(RMul(Rat(p.maintenance_rate, 100), RInt(p.house_price)), RInt(12)))

\* np.zeros(n), lines 54-60.
Zeros(n) == [i \in 0..(n - 1) |-> Zero]

\* Mutant of RentForPeriod: the guard m > 0 is missing, so the rent already
\* rises in the first period.
RentForPeriodNoGuard(m, rent) ==
  IF m % MonthsPerYear = 0
  THEN PMulAtom(rent, "rent_factor", 1)
  ELSE rent

\* Lines 80-81: the rent the period m uses, from the rent carried into it.
RentForPeriod(m, rent) ==
  IF m > 0 /\ m % MonthsPerYear = 0
  THEN PMulAtom(rent, "rent_factor", 1)
  ELSE rent

\* Line 82.
RentalIncomeEffective(rent, p) ==
  PScale(rent, RAdd(RInt(1), RNeg(Rat(p.vacancy_rate, 100))))

\* Mutant of NetIncome: the management fee is charged on the rent before
\* vacancy (current_rent) instead of the effective rent.
NetIncomeFeeOnGrossRent(rental_income_effective, emi, p) ==
  LET gross_rent ==
        PScale(rental_income_effective,
               RDiv(RInt(1), RAdd(RInt(1), RNeg(Rat(p.vacancy_rate, 100)))))
      management_fee == PScale(gross_rent, Rat(p.management_fee_rate, 100))
  IN  PSub(PSub(PSub(PSub(PSub(rental_income_effective, emi),
                          property_tax_monthly(p)),
                     insurance_monthly(p)),
                management_fee),
           maintenance_monthly(p))

\* Lines 86-89: management fee on the effective rent, then the net income.
NetIncome(rental_income_effective, emi, p) ==
  LET management_fee ==
        PScale(rental_income_effective, Rat(p.management_fee_rate, 100))
  IN  PSub(PSub(PSub(PSub(PSub(rental_income_effective, emi),
                          property_tax_monthly(p)),
                     insurance_monthly(p)),
                management_fee),
           maintenance_monthly(p))

\* Mutant of CumulativeAt: the index is off by one, so the sum restarts from
\* the still-zero entry of the current period.
CumulativeAtNoCarry(cumulative, m, net_income) ==
  IF m = 0 THEN net_income ELSE PAdd(cumulative[m], net_income)

\* Line 91.
CumulativeAt(cumulative, m, net_income) ==
  IF m = 0 THEN net_income ELSE PAdd(cumulative[m - 1], net_income)

\* Mutant of DepreciateStructure: the structure is multiplied by the land
\* factor.
DepreciateStructureByLandFactor(value) == PMulAtom(value, "land_factor", 1)

\* Lines 94-95.
DepreciateStructure(value) == PMulAtom(value, "structure_factor", 1)

AppreciateLand(value) == PMulAtom(value, "land_factor", 1)

\* Line 96.
TotalValue(structure, land) == PAdd(structure, land)

\* Line 103.
GrowAlternative(value) == PMulAtom(value, "alt_factor", 1)

\* Mutant of FinalAltValue: the exit tax is not applied.
FinalAltValueUntaxed(values, n, p) == values[n - 1]

\* Line 107.
FinalAltValue(values, n, p) ==
  PScale(values[n - 1], RAdd(RInt(1), RNeg(Rat(p.alt_investment_tax, 100))))

\* --------------------------------------------- generate_yearly_report

\* Mutant of YearEndIndex: the first period of the year is sampled.
YearStartIndex(y) == (y - 1) * MonthsPerYear

\* Line 129: the 0-based index of the last period of year y.
YearEndIndex(y) == y * MonthsPerYear - 1

\* Line 141: an element-wise pandas division, unguarded.  A zero divisor
\* raises nothing: the entry becomes NaN (0/0) or +/-Inf (x/0).
PercentDifference(difference, alt) ==
  IF PIsZero(alt)
  THEN [kind |-> "nonfinite"]
  ELSE [kind |-> "ratio", num |-> PScale(difference, RInt(100)), den |-> alt]

\* Lines 131-141: the row of year y.
ReportRow(y, structure, land, total, cumulative, alt) ==
  LET i == YearEndIndex(y)
      benefit == PAdd(total[i], cumulative[i])
      difference == PSub(benefit, alt[i])
  IN  [Year                   |-> y,
       structure_value        |-> structure[i],
       land_value             |-> land[i],
       total_property_value   |-> total[i],
       cumulative_cash_flow   |-> cumulative[i],
       alt_value              |-> alt[i],
       total_property_benefit |-> benefit,
       difference             |-> difference,
       percent_difference     |-> PercentDifference(difference, alt[i])]

\* Lines 123-142: years = arange(1, loan_term + 1), one row per year.
generate_yearly_report(structure, land, total, cumulative, alt, loan_term) ==
  [y \in 1..loan_term |-> ReportRow(y, structure, land, total, cumulative, alt)]

\* ----------------------------------------- calculate_advanced_metrics

\* Line 153: the sum over months 1..n of cash_flows / (1 + rate) ** months.
RECURSIVE NpvSum(_, _)
NpvSum(cash_flows, k) ==
  IF k = 0 THEN Zero
  ELSE PAdd(NpvSum(cash_flows, k - 1),
            PMulAtom(cash_flows[k - 1], "discount", k))

\* Every atom is positive, so a polynomial whose coefficients are all <= 0
\* (all >= 0) is <= 0 (>= 0).
NonPositive(p) == \A t \in p : t.coef[1] <= 0

NonNegative(p) == \A t \in p : t.coef[1] >= 0

NoSignChange(cash_flows) ==
  \/ \A i \in DOMAIN cash_flows : NonPositive(cash_flows[i])
  \/ \A i \in DOMAIN cash_flows : NonNegative(cash_flows[i])

\* Line 155, numpy_financial.irr: a float.  It is NaN when the flows have no
\* sign change or no root is found, and a rate otherwise; it is never None.
\* Whether a root exists for flows of mixed sign is left open.
npf_irr(cash_flows) ==
  IF NoSignChange(cash_flows) THEN {"nan"} ELSE {"nan", "root"}

\* Line 156: the annualised rate.  None only for a None input; NaN stays NaN
\* through (1 + x) ** 12 - 1.
IrrAnnual(irr_monthly) ==
  IF irr_monthly # "None"
  THEN (IF irr_monthly = "nan" THEN "nan" ELSE "rate")
  ELSE "None"

\* Lines 304-307: what main writes for the IRR.
IrrLine(irr_annual) ==
  IF irr_annual # "None" THEN "irr_formatted" ELSE "irr_could_not_be_calculated"

\* ----------------------------------------------------------------- state

VARIABLES
  params,                 \* the parameter record of this run
  pc,                     \* where main is
  raised,                 \* the exception raised, "none" if none
  shown,                  \* what main has written to the page
  EMI,
  m,                      \* the loop index of simulate_investment
  current_rent, structure_value, land_value, alt_value,
  cumulative_cash_flow, structure_values, land_values,
  total_property_values, alt_values, monthly_net_cash_flow,
  monthly_rental_income,
  df_report,
  npv, irr_monthly, irr_annual

running == <<current_rent, structure_value, land_value, alt_value>>

arrays == <<cumulative_cash_flow, structure_values, land_values,
            total_property_values, alt_values, monthly_net_cash_flow,
            monthly_rental_income>>

metrics == <<npv, irr_monthly, irr_annual>>

vars == <<params, pc, raised, shown, EMI, m, running, arrays, df_report, metrics>>

\* "Generate Report" has been pressed with some parameter record; nothing is
\* computed yet.
Init ==
  /\ params \in ParamSet
  /\ pc = "main"
  /\ raised = "none"
  /\ shown = {}
  /\ EMI = Zero
  /\ m = 0
  /\ current_rent = Zero
  /\ structure_value = Zero
  /\ land_value = Zero
  /\ alt_value = Zero
  /\ cumulative_cash_flow = <<>>
  /\ structure_values = <<>>
  /\ land_values = <<>>
  /\ total_property_values = <<>>
  /\ alt_values = <<>>
  /\ monthly_net_cash_flow = <<>>
  /\ monthly_rental_income = <<>>
  /\ df_report = <<>>
  /\ npv = Zero
  /\ irr_monthly = "unset"
  /\ irr_annual = "unset"

\* main line 268 enters simulate_investment, which computes n and the EMI
\* (lines 43-44) before it validates anything.  A ZeroDivisionError is not a
\* ValueError: the except clause of line 269 does not catch it and main dies.
ComputeEmi ==
  /\ pc = "main"
  /\ LET r == calculate_emi(params.house_price, params.loan_interest,
                            params.loan_term)
     IN  /\ raised' = r.raised
         /\ EMI' = r.value
         /\ pc' = IF r.raised = "none" THEN "validate" ELSE "crashed"
  /\ UNCHANGED <<params, shown, m, running, arrays, df_report, metrics>>

\* Lines 47-76.  A negative structure value raises ValueError, which main
\* catches (lines 269-271): it shows the message and returns.  Otherwise the
\* arrays and the starting values are set up.
Validate ==
  /\ pc = "validate"
  /\ IF structure_value_initial(params) < 0
     THEN /\ raised' = "ValueError"
          /\ shown' = shown \cup {"error"}
          /\ pc' = "halted"
          /\ UNCHANGED <<m, running, arrays>>
     ELSE /\ cumulative_cash_flow' = Zeros(NumPeriods(params))
          /\ structure_values' = Zeros(NumPeriods(params))
          /\ land_values' = Zeros(NumPeriods(params))
          /\ total_property_values' = Zeros(NumPeriods(params))
          /\ alt_values' = Zeros(NumPeriods(params))
          /\ monthly_net_cash_flow' = Zeros(NumPeriods(params))
          /\ monthly_rental_income' = Zeros(NumPeriods(params))
          /\ current_rent' = Const(RInt(params.monthly_rent))
          /\ structure_value' = Const(RInt(structure_value_initial(params)))
          /\ land_value' = Const(RInt(initial_land_value(params)))
          /\ alt_value' = Const(RInt(params.house_price))
          /\ m' = 0
          /\ pc' = "loop"
          /\ UNCHANGED <<raised, shown>>
  /\ UNCHANGED <<params, EMI, df_report, metrics>>

\* One iteration of the loop of lines 78-104.
LoopStep ==
  /\ pc = "loop"
  /\ m < NumPeriods(params)
  /\ LET rent == RentForPeriod(m, current_rent)
         rental_income_effective == RentalIncomeEffective(rent, params)
         net_income == NetIncome(rental_income_effective, EMI, params)
         structure == DepreciateStructure(structure_value)
         land == AppreciateLand(land_value)
         alt == GrowAlternative(alt_value)
     IN  /\ current_rent' = rent
         /\ monthly_rental_income' =
              [monthly_rental_income EXCEPT ![m] = rental_income_effective]
         /\ monthly_net_cash_flow' =
              [monthly_net_cash_flow EXCEPT ![m] = net_income]
         /\ cumulative_cash_flow' =
              [cumulative_cash_flow EXCEPT
                 ![m] = CumulativeAt(cumulative_cash_flow, m, net_income)]
         /\ structure_value' = structure
         /\ land_value' = land
         /\ structure_values' = [structure_values EXCEPT ![m] = structure]
         /\ land_values' = [land_values EXCEPT ![m] = land]
         /\ total_property_values' =
              [total_property_values EXCEPT ![m] = TotalValue(structure, land)]
         /\ alt_value' = alt
         /\ alt_values' = [alt_values EXCEPT ![m] = alt]
  /\ m' = m + 1
  /\ UNCHANGED <<params, pc, raised, shown, EMI, df_report, metrics>>

\* Lines 106-121: the loop is over; the exit tax goes on the last entry and
\* the results are returned to main.
ApplyExitTax ==
  /\ pc = "loop"
  /\ m = NumPeriods(params)
  /\ alt_values' =
       [alt_values EXCEPT
          ![NumPeriods(params) - 1] =
             FinalAltValue(alt_values, NumPeriods(params), params)]
  /\ pc' = "report"
  /\ UNCHANGED <<params, raised, shown, EMI, m, running, cumulative_cash_flow,
                 structure_values, land_values, total_property_values,
                 monthly_net_cash_flow, monthly_rental_income, df_report,
                 metrics>>

\* main line 273.
GenerateReport ==
  /\ pc = "report"
  /\ df_report' =
       generate_yearly_report(structure_values, land_values,
                              total_property_values, cumulative_cash_flow,
                              alt_values, params.loan_term)
  /\ pc' = "metrics"
  /\ UNCHANGED <<params, raised, shown, EMI, m, running, arrays, metrics>>

\* main lines 275-307: the summary (its verdict of lines 296-299 compares two
\* values and is shown either way), then calculate_advanced_metrics (lines
\* 144-157) and the two lines main writes for NPV and IRR.
ComputeMetrics ==
  /\ pc = "metrics"
  /\ \E r \in npf_irr(monthly_net_cash_flow) :
       /\ irr_monthly' = r
       /\ irr_annual' = IrrAnnual(r)
       /\ shown' = shown \cup {"summary", "npv", IrrLine(IrrAnnual(r))}
  /\ npv' = NpvSum(monthly_net_cash_flow, NumPeriods(params))
  /\ pc' = "display"
  /\ UNCHANGED <<params, raised, EMI, m, running, arrays, df_report>>

\* main lines 309-347: the table, the charts and the discussion.
Display ==
  /\ pc = "display"
  /\ shown' = shown \cup {"yearly_report", "charts"}
  /\ pc' = "done"
  /\ UNCHANGED <<params, raised, EMI, m, running, arrays, df_report, metrics>>

Next ==
  \/ ComputeEmi
  \/ Validate
  \/ LoopStep
  \/ ApplyExitTax
  \/ GenerateReport
  \/ ComputeMetrics
  \/ Display

Spec == Init /\ [][Next]_vars

\* ---------------------------------------------------------------- claims

\* simulate_investment has returned its results to main.
Returned == pc \in {"report", "metrics", "display", "done"}

\* The loop has been entered (some periods may be written already).
Simulating == pc = "loop" \/ Returned

\* The periods whose entries are written: 0..m-1.
Written == 0..(m - 1)

\* 1 - rate/100 as a rational.
Complement(rate) == RAdd(RInt(1), RNeg(Rat(rate, 100)))

\* C1: whenever land_area * land_price_per_sqft > house_price, the run fails
\* with ValueError and nothing else: no other exception is raised, main
\* halts having shown only the error, and no arrays, report or metrics exist.
C1_ValidationErrorReported ==
  initial_land_value(params) > params.house_price =>
    /\ raised \in {"none", "ValueError"}
    /\ pc \in {"main", "validate", "halted"}
    /\ pc = "halted" => (raised = "ValueError" /\ shown = {"error"})
    /\ df_report = <<>>
    /\ cumulative_cash_flow = <<>>
    /\ irr_annual = "unset"

\* C2: for a zero-rate loan with P > 0 and years > 0, calculate_emi does not
\* fail and returns exactly P / n with n = years * 12.
C2_ZeroRateEmi ==
  (params.loan_interest = 0 /\ params.house_price > 0 /\ pc # "main") =>
    /\ raised # "ZeroDivisionError"
    /\ EMI = Const(Rat(params.house_price, params.loan_term * MonthsPerYear))

\* C3: when the net cash flows have no sign change, or no root was found,
\* the annual IRR is None and main writes "IRR could not be calculated."
\* instead of formatting a value.
C3_UndefinedIrrIsNone ==
  (pc \in {"display", "done"}
   /\ (NoSignChange(monthly_net_cash_flow) \/ irr_monthly # "root")) =>
    /\ irr_annual = "None"
    /\ "irr_could_not_be_calculated" \in shown
    /\ "irr_formatted" \notin shown

\* C4: in every row of the yearly report whose alternative value is 0, the
\* '% Difference' entry is not a non-finite value.
C4_PercentDifferenceGuarded ==
  pc \in {"metrics", "display", "done"} =>
    \A y \in DOMAIN df_report :
      PIsZero(df_report[y].alt_value) =>
        df_report[y].percent_difference.kind # "nonfinite"

\* house_price * (1 + monthly_alt_rate)^k.
AltCompounded(k) ==
  PMulAtom(Const(RInt(params.house_price)), "alt_factor", k)

\* C5: the exit tax is applied once, to the last period only.  Every written
\* entry but the last of a finished run is house_price * (1 + rate)^(i+1),
\* with no tax in it; the last entry of a finished run is
\* house_price * (1 + rate)^N * (1 - alt_investment_tax/100); and the running
\* alt_value is the untaxed compounding throughout.
C5_ExitTaxOnceOnLastPeriod ==
  Simulating =>
    /\ alt_value = AltCompounded(m)
    /\ \A i \in Written :
         alt_values[i] =
           IF Returned /\ i = NumPeriods(params) - 1
           THEN PScale(AltCompounded(NumPeriods(params)),
                       Complement(params.alt_investment_tax))
           ELSE AltCompounded(i + 1)

C5_Witness ==
  /\ pc = "done"
  /\ params.alt_investment_tax = 30
  /\ params.house_price > 0
  /\ params.loan_term > 1
  /\ alt_values[NumPeriods(params) - 1] # alt_value
  /\ alt_values[NumPeriods(params) - 2] = AltCompounded(NumPeriods(params) - 1)

\* monthly_rent * (1 + rental_increase/100)^floor((period - 1) / 12), for
\* the 1-based period.
RentInPeriod(period) ==
  PMulAtom(Const(RInt(params.monthly_rent)), "rent_factor",
           (period - 1) \div MonthsPerYear)

\* C6: the rent of the 1-based period p is
\* monthly_rent * (1 + rental_increase/100)^floor((p-1)/12): it is multiplied
\* by the factor on entering periods 13, 25, 37, ... and nowhere else, period
\* 1 uses the initial rent, and nothing after the loop touches it.
C6_RentStepsAtYearStarts ==
  Simulating =>
    /\ current_rent = (IF m = 0 THEN Const(RInt(params.monthly_rent))
                       ELSE RentInPeriod(m))
    /\ \A i \in Written :
         monthly_rental_income[i] =
           PScale(RentInPeriod(i + 1), Complement(params.vacancy_rate))

C6_Witness ==
  /\ pc = "loop"
  /\ m = MonthsPerYear + 1
  /\ params.monthly_rent = 100
  /\ current_rent = PMulAtom(Const(RInt(100)), "rent_factor", 1)
  /\ monthly_rental_income[MonthsPerYear - 1] # monthly_rental_income[MonthsPerYear]

\* cumulative[i..last] are the running sums acc + cash_flows[i], acc +
\* cash_flows[i] + cash_flows[i+1], ...
RECURSIVE RunningSums(_, _, _, _, _)
RunningSums(cumulative, cash_flows, i, last, acc) ==
  IF i > last THEN TRUE
  ELSE /\ cumulative[i] = PAdd(acc, cash_flows[i])
       /\ RunningSums(cumulative, cash_flows, i + 1, last,
                      PAdd(acc, cash_flows[i]))

\* The written entries of cumulative_cash_flow satisfy the recurrence and are
\* the prefix sums of the net cash flows.
CumulativeIsPrefixSum ==
  Simulating =>
    /\ \A i \in Written :
         cumulative_cash_flow[i] =
           (IF i = 0 THEN monthly_net_cash_flow[0]
            ELSE PAdd(cumulative_cash_flow[i - 1], monthly_net_cash_flow[i]))
    /\ RunningSums(cumulative_cash_flow, monthly_net_cash_flow, 0, m - 1, Zero)

\* A step leaves every written entry of cumulative_cash_flow as it is.
NoRewrite ==
  Simulating => \A i \in Written : cumulative_cash_flow'[i] = cumulative_cash_flow[i]

\* C7: cumulative_cash_flow[0] = net[0], cumulative_cash_flow[i] =
\* cumulative_cash_flow[i-1] + net[i] for i > 0, every entry is the prefix sum
\* of the net cash flows, and no entry is rewritten after its period.
C7_CumulativeCashFlow == [](CumulativeIsPrefixSum) /\ [][NoRewrite]_vars

C7_Witness ==
  /\ pc = "done"
  /\ params.monthly_rent = 100
  /\ params.loan_term > 1
  /\ cumulative_cash_flow[NumPeriods(params) - 1]
       # monthly_net_cash_flow[NumPeriods(params) - 1]
  /\ cumulative_cash_flow[NumPeriods(params) - 1]
       # cumulative_cash_flow[NumPeriods(params) - 2]

\* C8: the report has exactly loan_term rows; row y holds the monthly values
\* at index 12y - 1, which lies in 0..N-1; benefit = total + cumulative and
\* difference = benefit - alt; the last row carries the taxed final
\* alternative value.
C8_YearlyReportSamples ==
  pc \in {"metrics", "display", "done"} =>
    /\ DOMAIN df_report = 1..params.loan_term
    /\ \A y \in 1..params.loan_term :
         LET i == MonthsPerYear * y - 1
             row == df_report[y]
         IN  /\ i \in 0..(NumPeriods(params) - 1)
             /\ row.Year = y
             /\ row.structure_value = structure_values[i]
             /\ row.land_value = land_values[i]
             /\ row.total_property_value = total_property_values[i]
             /\ row.cumulative_cash_flow = cumulative_cash_flow[i]
             /\ row.alt_value = alt_values[i]
             /\ row.total_property_benefit =
                  PAdd(total_property_values[i], cumulative_cash_flow[i])
             /\ row.difference =
                  PSub(PAdd(total_property_values[i], cumulative_cash_flow[i]),
                       alt_values[i])
    /\ df_report[params.loan_term].alt_value =
         PScale(AltCompounded(NumPeriods(params)),
                Complement(params.alt_investment_tax))

C8_Witness ==
  /\ pc = "done"
  /\ params.loan_term > 1
  /\ params.alt_investment_tax = 30
  /\ params.house_price > 0
  /\ df_report[1].alt_value = AltCompounded(MonthsPerYear)
  /\ df_report[1].structure_value # df_report[2].structure_value

\* What the inputs say about an atom: structure_factor is in (0, 1) for a
\* depreciation rate in (0, 100); land_factor exceeds 1 for a positive growth
\* rate.
AtomBelowOne(a) ==
  /\ a = "structure_factor"
  /\ params.house_depreciation_rate > 0
  /\ params.house_depreciation_rate < 100

AtomAboveOne(a) == a = "land_factor" /\ params.land_growth_rate > 0

\* x < y, for two values c * a^j and c * a^k with the same positive c that
\* differ in the exponent of one atom a: a < 1 and j > k, or a > 1 and j < k.
PLess(x, y) ==
  \E tx \in x, ty \in y :
    /\ x = {tx}
    /\ y = {ty}
    /\ tx.coef = ty.coef
    /\ tx.coef[1] > 0
    /\ \E a \in Atoms :
         /\ \A b \in Atoms \ {a} : tx.mono[b] = ty.mono[b]
         /\ \/ AtomBelowOne(a) /\ tx.mono[a] > ty.mono[a]
            \/ AtomAboveOne(a) /\ tx.mono[a] < ty.mono[a]

\* C9: with a positive initial structure value and a depreciation rate in
\* (0, 100) the recorded structure values start below the initial value and
\* strictly decrease; with a positive initial land value and a positive
\* growth rate the recorded land values strictly increase; and in every
\* period total = structure + land.
C9_MonotoneValues ==
  Simulating =>
    /\ (structure_value_initial(params) > 0
        /\ params.house_depreciation_rate > 0
        /\ params.house_depreciation_rate < 100) =>
         \A i \in Written :
           PLess(structure_values[i],
                 IF i = 0 THEN Const(RInt(structure_value_initial(params)))
                 ELSE structure_values[i - 1])
    /\ (initial_land_value(params) > 0 /\ params.land_growth_rate > 0) =>
         \A i \in Written \ {0} : PLess(land_values[i - 1], land_values[i])
    /\ \A i \in Written :
         total_property_values[i] = PAdd(structure_values[i], land_values[i])

C9_Witness ==
  /\ pc = "done"
  /\ structure_value_initial(params) > 0
  /\ initial_land_value(params) > 0
  /\ params.house_depreciation_rate = 1
  /\ params.land_growth_rate = 3
  /\ params.loan_term > 1
  /\ PLess(structure_values[NumPeriods(params) - 1], structure_values[0])
  /\ PLess(land_values[0], land_values[NumPeriods(params) - 1])

\* rate/100 * house_price / 12.
MonthlyCharge(rate) == Const(Rat(rate * params.house_price, 100 * 12))

\* The net cash flow of the 0-based period i, from the inputs alone.
NetInPeriod(i) ==
  LET effective_rent ==
        PScale(RentInPeriod(i + 1), Complement(params.vacancy_rate))
      management_fee ==
        PScale(effective_rent, Rat(params.management_fee_rate, 100))
      emi == calculate_emi(params.house_price, params.loan_interest,
                           params.loan_term).value
  IN  PAdd(effective_rent,
           PScale(PAdd(PAdd(PAdd(PAdd(emi,
                                      MonthlyCharge(params.property_tax_rate)),
                                 MonthlyCharge(params.insurance_rate)),
                            management_fee),
                       MonthlyCharge(params.maintenance_rate)),
                  RInt(-1)))

\* C10: in every period the net cash flow is effective rent - EMI - property
\* tax - insurance - management fee - maintenance, with the fee on the
\* post-vacancy rent and the EMI and the three charges fixed from the
\* original house price; so it is constant within each 12-period year.
C10_NetCashFlow ==
  Simulating =>
    /\ EMI = calculate_emi(params.house_price, params.loan_interest,
                           params.loan_term).value
    /\ \A i \in Written : monthly_net_cash_flow[i] = NetInPeriod(i)
    /\ \A i, j \in Written :
         i \div MonthsPerYear = j \div MonthsPerYear =>
           monthly_net_cash_flow[i] = monthly_net_cash_flow[j]

C10_Witness ==
  /\ pc = "done"
  /\ params.monthly_rent = 100
  /\ params.vacancy_rate = 50
  /\ params.property_tax_rate = 1
  /\ params.house_price > 0
  /\ params.loan_term > 1
  /\ ~PIsZero(structure_values[0])
  /\ monthly_net_cash_flow[0] # monthly_net_cash_flow[MonthsPerYear]
  /\ monthly_net_cash_flow[0] = monthly_net_cash_flow[MonthsPerYear - 1]

====
